---- MODULE Spec2Model ----
(***************************************************************************)
(* A model of package mongo (shideqin/mongo), a facade over the mgo        *)
(* driver.  The repository holds two implementations of the package:       *)
(*   - src/unnamed/part_000: the per-client variant, whose Client carries  *)
(*     its own sticky connErr;                                             *)
(*   - src/mongo.go: the single-global variant, whose connErr is a         *)
(*     package-level variable.                                             *)
(* The driver (mgo, bson) and net/url are collaborators outside the        *)
(* repository: their calls are modelled at the call sites by what the      *)
(* called function does (hex decoding, URL parsing, query evaluation) or,  *)
(* for network operations, by a nondeterministic outcome.                  *)
(***************************************************************************)
EXTENDS Integers, Sequences, FiniteSets, TLC

VARIABLES
    variant,    \* which implementation is linked: "client" or "global"
    conns,      \* the outcome of every Conn call so far, in call order
    gConnErr,   \* mongo.go: the package-level connErr
    pc,         \* per caller: "idle", "open" (session copy held), "pinged"
    op,         \* per caller: the kind of method in flight
    hd,         \* per caller: the index in conns of the handle it was called on
    cp,         \* per caller: its session copy, "none" or "open"
    last,       \* what the most recently returned call returned and did
    hx,         \* identifier utilities: the inputs
    hxOut,      \* identifier utilities: the results
    qry,        \* GetResult: the inputs
    qryOut      \* GetResult: the result

hvars == <<variant, conns, gConnErr, pc, op, hd, cp, last>>
xvars == <<hx, hxOut>>
qvars == <<qry, qryOut>>
vars == <<variant, conns, gConnErr, pc, op, hd, cp, last, hx, hxOut, qry, qryOut>>

(***************************************************************************)
(* Bounds of the model.                                                    *)
(***************************************************************************)
NumCallers == 2     \* concurrent callers (goroutines) sharing the handles
MaxHandles == 1     \* Conn calls of the per-client variant
MaxConns == 2       \* Conn calls of the single-global variant
LenSlack == 2       \* candidate hex strings have 24 +/- LenSlack characters
MaxLimit == 2       \* options["Limit"] of type int ranges over 0..MaxLimit
MaxSkip == 2        \* options["Skip"] of type int ranges over 0..MaxSkip

Callers == 1..NumCallers

(***************************************************************************)
(* Identifier utilities: Hex, IsObjectIdHex, ObjectIDHex.                  *)
(* A string is a sequence of one-character strings, an identifier a        *)
(* sequence of ObjectIdLen bytes (0..255).                                 *)
(***************************************************************************)
ObjectIdLen == 12

HexDigits == <<"0", "1", "2", "3", "4", "5", "6", "7",
               "8", "9", "a", "b", "c", "d", "e", "f">>

UpperHexDigits == <<"0", "1", "2", "3", "4", "5", "6", "7",
                    "8", "9", "A", "B", "C", "D", "E", "F">>

\* encoding/hex fromHexChar: the value of a hex digit of either case, -1 otherwise
FromHexChar(c) ==
    IF \E k \in 1..16 : HexDigits[k] = c
    THEN (CHOOSE k \in 1..16 : HexDigits[k] = c) - 1
    ELSE IF \E k \in 1..16 : UpperHexDigits[k] = c
    THEN (CHOOSE k \in 1..16 : UpperHexDigits[k] = c) - 1
    ELSE -1

\* encoding/hex DecodeString: fails on an odd length or a non-hex character
DecodeString(s) ==
    IF Len(s) % 2 = 1 \/ \E k \in 1..Len(s) : FromHexChar(s[k]) = -1
    THEN [ok |-> FALSE, bytes |-> <<>>]
    ELSE [ok |-> TRUE,
          bytes |-> [k \in 1..(Len(s) \div 2) |->
                        16 * FromHexChar(s[2 * k - 1]) + FromHexChar(s[2 * k])]]

\* encoding/hex EncodeToString: two lowercase digits per byte, high nibble first
EncodeToString(bytes) ==
    [k \in 1..(2 * Len(bytes)) |->
        LET b == bytes[(k + 1) \div 2]
        IN  IF k % 2 = 1 THEN HexDigits[(b \div 16) + 1] ELSE HexDigits[(b % 16) + 1]]

HexLowNibbleOnly(oid) ==
    [k \in 1..(2 * Len(oid)) |-> HexDigits[(oid[(k + 1) \div 2] % 16) + 1]]

\* part_000: Hex(oid) returns oid.Hex()
Hex(oid) == EncodeToString(oid)

\* mongo.go: Hex(id) returns id.(bson.ObjectId).Hex(); ObjectID is interface{}
GHex(id) == EncodeToString(id)

IsObjectIdHexNoLength(s) == DecodeString(s).ok

\* part_000: IsObjectIdHex(s) returns bson.IsObjectIdHex(s):
\*   len(s) == 24 and hex.DecodeString(s) succeeds
IsObjectIdHex(s) ==
    IF Len(s) # 2 * ObjectIdLen THEN FALSE ELSE DecodeString(s).ok

\* part_000: ObjectIDHex(s) returns bson.ObjectIdHex(s), which panics unless
\* hex.DecodeString(s) succeeds with ObjectIdLen bytes.  ok = FALSE is the panic.
ObjectIDHex(s) ==
    LET d == DecodeString(s)
    IN  IF ~d.ok \/ Len(d.bytes) # ObjectIdLen
        THEN [ok |-> FALSE, id |-> <<>>]
        ELSE [ok |-> TRUE, id |-> d.bytes]

\* mongo.go: ObjectIDHex(id) returns bson.ObjectIdHex(id) as an interface{}
GObjectIDHex(s) == ObjectIDHex(s)

(***************************************************************************)
(* The identifier utilities under test: the candidate strings are a run of *)
(* "0" with one character replaced, of every length around 24; the         *)
(* identifiers are all-zero with one byte replaced.                        *)
(***************************************************************************)
SampleChars == {"0", "9", "a", "f", "A", "F", "g", "G", "x", "-"}

SampleBytes == {0, 1, 15, 16, 171, 255}

OneOff(n, k, c) == [j \in 1..n |-> IF j = k THEN c ELSE "0"]

HexInputs ==
    {OneOff(n, k, c) : n \in (2 * ObjectIdLen - LenSlack)..(2 * ObjectIdLen + LenSlack),
                       k \in 1..(2 * ObjectIdLen + LenSlack),
                       c \in SampleChars}

IdInputs ==
    {[j \in 1..ObjectIdLen |-> IF j = k THEN b ELSE 0] :
        k \in 1..ObjectIdLen, b \in SampleBytes}

ZeroId == [j \in 1..ObjectIdLen |-> 0]

NoParse == [ok |-> FALSE, id |-> <<>>]

HexIdle == [did |-> {}, valid |-> FALSE, parsed |-> NoParse,
            hexA |-> <<>>, hexB |-> <<>>, back |-> NoParse]

\* IsObjectIdHex(hx.s) is called (part_000 only: mongo.go has no such function)
DoIsObjectIdHex ==
    /\ hx.use = "string"
    /\ hx.variant = "client"
    /\ hxOut' = [hxOut EXCEPT !.did = @ \cup {"IsObjectIdHex"},
                              !.valid = IsObjectIdHex(hx.s)]
    /\ UNCHANGED <<hx, hvars, qvars>>

\* ObjectIDHex(hx.s) is called
DoObjectIDHex ==
    /\ hx.use = "string"
    /\ hxOut' = [hxOut EXCEPT !.did = @ \cup {"ObjectIDHex"},
                              !.parsed = IF hx.variant = "client"
                                         THEN ObjectIDHex(hx.s)
                                         ELSE GObjectIDHex(hx.s)]
    /\ UNCHANGED <<hx, hvars, qvars>>

\* Hex is called on the two identifiers
DoHex ==
    /\ hx.use = "ids"
    /\ hxOut' = [hxOut EXCEPT !.did = @ \cup {"Hex"},
                              !.hexA = IF hx.variant = "client" THEN Hex(hx.a) ELSE GHex(hx.a),
                              !.hexB = IF hx.variant = "client" THEN Hex(hx.b) ELSE GHex(hx.b)]
    /\ UNCHANGED <<hx, hvars, qvars>>

\* ObjectIDHex(Hex(hx.a)): main.go lines 23 and 31
DoRoundTrip ==
    /\ hx.use = "ids"
    /\ "Hex" \in hxOut.did
    /\ hxOut' = [hxOut EXCEPT !.did = @ \cup {"RoundTrip"},
                              !.back = IF hx.variant = "client"
                                       THEN ObjectIDHex(hxOut.hexA)
                                       ELSE GObjectIDHex(hxOut.hexA)]
    /\ UNCHANGED <<hx, hvars, qvars>>

(***************************************************************************)
(* GetResult: the options mapping and the query it builds.                 *)
(* An entry of the options mapping (an interface{} value) is a record of   *)
(* its dynamic type and its value: n for the integer types, str for a      *)
(* string, fields for Sort and []string.  type "nil" is an absent key.     *)
(***************************************************************************)
OptVal(type, n, str, fields) ==
    [type |-> type, n |-> n, str |-> str, fields |-> fields]

Absent == OptVal("nil", 0, "", <<>>)

\* the collection the queries run on: five documents
Fixture ==
    << [id |-> 1, age |-> 30, rank |-> 2],
       [id |-> 2, age |-> 25, rank |-> 5],
       [id |-> 3, age |-> 41, rank |-> 1],
       [id |-> 4, age |-> 25, rank |-> 3],
       [id |-> 5, age |-> 19, rank |-> 4] >>

\* a query document {field: {$gte: min}}
Matches(doc, query) == doc[query.field] >= query.min

RECURSIVE Filter(_, _)
Filter(docs, query) ==
    IF docs = <<>> THEN <<>>
    ELSE IF Matches(Head(docs), query)
         THEN <<Head(docs)>> \o Filter(Tail(docs), query)
         ELSE Filter(Tail(docs), query)

\* a sort field: "name" ascending, "-name" descending
Descending(key) == key \in {"-age", "-rank"}
FieldOf(key) == IF key \in {"age", "-age"} THEN "age" ELSE "rank"

\* d1 sorts strictly before d2 under the sort fields, compared in order
RECURSIVE Before(_, _, _)
Before(d1, d2, keys) ==
    IF keys = <<>> THEN FALSE
    ELSE LET f == FieldOf(Head(keys))
         IN  IF d1[f] = d2[f] THEN Before(d1, d2, Tail(keys))
             ELSE IF Descending(Head(keys)) THEN d1[f] > d2[f] ELSE d1[f] < d2[f]

\* stable insertion of d into a sorted sequence
RECURSIVE InsertSorted(_, _, _)
InsertSorted(d, sorted, keys) ==
    IF sorted = <<>> THEN <<d>>
    ELSE IF Before(d, Head(sorted), keys)
         THEN <<d>> \o sorted
         ELSE <<Head(sorted)>> \o InsertSorted(d, Tail(sorted), keys)

RECURSIVE SortBy(_, _)
SortBy(docs, keys) ==
    IF docs = <<>> THEN <<>>
    ELSE InsertSorted(docs[Len(docs)], SortBy(SubSeq(docs, 1, Len(docs) - 1), keys), keys)

Drop(docs, n) == SubSeq(docs, n + 1, Len(docs))
Take(docs, n) == SubSeq(docs, 1, IF n < Len(docs) THEN n ELSE Len(docs))

\* conn.Find(query).Select(fields): a query with no sort, no limit, no skip
NewFind(query) ==
    [query |-> query, sorted |-> FALSE, sort |-> <<>>, limit |-> 0, skip |-> 0,
     applied |-> {}]

\* options[key] != "": false only for a string-typed entry holding ""
NotEmptyString(v) == ~(v.type = "string" /\ v.str = "")

ApplySortAnySlice(find, options) ==
    IF NotEmptyString(options.Sort) /\ options.Sort.type \in {"Sort", "[]string"}
    THEN [find EXCEPT !.sorted = TRUE, !.sort = options.Sort.fields,
                      !.applied = @ \cup {"Sort"}]
    ELSE find

\* lines 111-115: find.Sort(sort...) when options["Sort"] has type Sort
ApplySort(find, options) ==
    IF NotEmptyString(options.Sort) /\ options.Sort.type = "Sort"
    THEN [find EXCEPT !.sorted = TRUE, !.sort = options.Sort.fields,
                      !.applied = @ \cup {"Sort"}]
    ELSE find

ApplyLimitAnyInt(find, options) ==
    IF NotEmptyString(options.Limit) /\ options.Limit.type \in {"int", "int64"}
    THEN [find EXCEPT !.limit = options.Limit.n, !.applied = @ \cup {"Limit"}]
    ELSE find

\* lines 117-121: find.Limit(limit) when options["Limit"] has type int
ApplyLimit(find, options) ==
    IF NotEmptyString(options.Limit) /\ options.Limit.type = "int"
    THEN [find EXCEPT !.limit = options.Limit.n, !.applied = @ \cup {"Limit"}]
    ELSE find

ApplySkipFromLimit(find, options) ==
    IF NotEmptyString(options.Limit) /\ options.Limit.type = "int"
    THEN [find EXCEPT !.skip = options.Limit.n, !.applied = @ \cup {"Skip"}]
    ELSE find

\* lines 123-127: find.Skip(skip) when options["Skip"] has type int
ApplySkip(find, options) ==
    IF NotEmptyString(options.Skip) /\ options.Skip.type = "int"
    THEN [find EXCEPT !.skip = options.Skip.n, !.applied = @ \cup {"Skip"}]
    ELSE find

\* find.All(result): the server filters, sorts, skips, then limits, whatever
\* the order the query was configured in; a limit of 0 is no limit
All(find, docs) ==
    LET f == Filter(docs, find.query)
        s == IF find.sorted THEN SortBy(f, find.sort) ELSE f
        k == Drop(s, find.skip)
    IN  IF find.limit = 0 THEN k ELSE Take(k, find.limit)

\* GetResult on a healthy handle, lines 108-128: the documents decoded into
\* result and the options that were applied
GetResult(query, options) ==
    LET find == ApplySkip(ApplyLimit(ApplySort(NewFind(query), options), options), options)
    IN  [docs |-> All(find, Fixture), applied |-> find.applied, err |-> "nil"]

SortValues ==
    {Absent, OptVal("string", 0, "", <<>>), OptVal("string", 0, "-age", <<>>)}
    \cup {OptVal(ty, 0, "", f) : ty \in {"Sort", "[]string"},
                                 f \in {<<"-age">>, <<"age">>, <<"age", "-rank">>}}

IntValues(max) ==
    {Absent, OptVal("string", 0, "", <<>>), OptVal("string", 0, "1", <<>>)}
    \cup {OptVal(ty, n, "", <<>>) : ty \in {"int", "int64"}, n \in 0..max}

Queries == {[field |-> "age", min |-> 0], [field |-> "age", min |-> 25]}

QryIdle == [done |-> FALSE, docs |-> <<>>, applied |-> {}, err |-> "nil"]

\* GetResult(database, collection, qry.query, nil, qry.options, &result)
DoGetResult ==
    /\ ~qryOut.done
    /\ LET r == GetResult(qry.query, qry.options)
       IN  qryOut' = [done |-> TRUE, docs |-> r.docs, applied |-> r.applied,
                      err |-> r.err]
    /\ UNCHANGED <<qry, hvars, xvars>>

(***************************************************************************)
(* Conn: the address, url.Parse and mgo.Dial.                              *)
(* An address is a sequence of characters: letters m h u p d, digits 1 2,  *)
(* and the separators of the grammar                                       *)
(*   [mongodb://][user:pass@]host1[:port1][,host2[:port2],...][/database]  *)
(***************************************************************************)
Letters == {"m", "h", "u", "p", "d"}
Digits == {"1", "2"}

IndexOf(s, c) ==
    IF \E k \in 1..Len(s) : s[k] = c
    THEN CHOOSE k \in 1..Len(s) : s[k] = c /\ \A j \in 1..(k - 1) : s[j] # c
    ELSE 0

LastIndexOf(s, c) ==
    IF \E k \in 1..Len(s) : s[k] = c
    THEN CHOOSE k \in 1..Len(s) : s[k] = c /\ \A j \in (k + 1)..Len(s) : s[j] # c
    ELSE 0

HasPrefix(s, pre) == Len(s) >= Len(pre) /\ SubSeq(s, 1, Len(pre)) = pre

\* net/url getScheme: the scheme is the letters (then letters, digits, + - .)
\* before the first ":"; none when the string starts otherwise
RECURSIVE GetSchemeAt(_, _)
GetSchemeAt(raw, k) ==
    IF k > Len(raw) THEN [ok |-> TRUE, scheme |-> <<>>, rest |-> raw]
    ELSE IF raw[k] \in Letters THEN GetSchemeAt(raw, k + 1)
    ELSE IF raw[k] \in Digits \cup {"+", "-", "."}
         THEN IF k = 1 THEN [ok |-> TRUE, scheme |-> <<>>, rest |-> raw]
              ELSE GetSchemeAt(raw, k + 1)
    ELSE IF raw[k] = ":"
         THEN IF k = 1 THEN [ok |-> FALSE, scheme |-> <<>>, rest |-> raw]
              ELSE [ok |-> TRUE, scheme |-> SubSeq(raw, 1, k - 1),
                    rest |-> SubSeq(raw, k + 1, Len(raw))]
    ELSE [ok |-> TRUE, scheme |-> <<>>, rest |-> raw]

\* net/url parseHost: what follows the last ":" must be digits
ValidHost(host) ==
    LET k == LastIndexOf(host, ":")
    IN  k = 0 \/ \A j \in (k + 1)..Len(host) : host[j] \in Digits

\* net/url parseAuthority: the host is what follows the last "@"
HostOfAuthority(authority) ==
    SubSeq(authority, LastIndexOf(authority, "@") + 1, Len(authority))

NilURL == [ok |-> FALSE, host |-> <<>>]

\* line 40, u, _ := url.Parse(urlAddr): u is nil (ok = FALSE) when the parse
\* fails, and the error is dropped
UrlParse(rawURL) ==
    LET g == GetSchemeAt(rawURL, 1)
        q == IndexOf(g.rest, "?")
        rest == IF q = 0 THEN g.rest ELSE SubSeq(g.rest, 1, q - 1)
        slash == IndexOf(rest, "/")
        segment == IF slash = 0 THEN rest ELSE SubSeq(rest, 1, slash - 1)
    IN  IF ~g.ok THEN NilURL
        ELSE IF ~HasPrefix(rest, <<"/">>)
        THEN IF g.scheme # <<>> THEN [ok |-> TRUE, host |-> <<>>]      \* opaque
             ELSE IF IndexOf(segment, ":") # 0 THEN NilURL
             \* "first path segment in URL cannot contain colon"
             ELSE [ok |-> TRUE, host |-> <<>>]
        ELSE IF HasPrefix(rest, <<"/", "/">>)
                /\ (g.scheme # <<>> \/ ~HasPrefix(rest, <<"/", "/", "/">>))
        THEN LET after == SubSeq(rest, 3, Len(rest))
                 cut == IndexOf(after, "/")
                 authority == IF cut = 0 THEN after ELSE SubSeq(after, 1, cut - 1)
                 host == HostOfAuthority(authority)
             IN  IF ValidHost(host) THEN [ok |-> TRUE, host |-> host] ELSE NilURL
        ELSE [ok |-> TRUE, host |-> <<>>]

\* the addresses Conn is called with
AddrScheme == <<"m", ":", "/", "/", "h", ":", "1">>                  \* mongodb://host:port
AddrUser == <<"m", ":", "/", "/", "u", ":", "p", "@", "h", ":", "1", "/", "d">>
AddrHostPort == <<"h", ":", "1">>                                    \* localhost:27017
AddrIPPort == <<"1", ".", "1", ":", "1">>                            \* 127.0.0.1:27017
AddrHosts == <<"m", ":", "/", "/", "h", ":", "1", ",", "h", "/", "d">> \* two hosts
Addrs == {AddrScheme, AddrUser, AddrHostPort, AddrIPPort, AddrHosts}

(***************************************************************************)
(* Errors.  An error value is a record; NoErr is the nil error.            *)
(***************************************************************************)
Err(kind, host, msg) == [kind |-> kind, host |-> host, msg |-> msg]
NoErr == Err("nil", <<>>, "")
\* a panic that reaches the caller
Panic == Err("panic", <<>>, "")
\* an error value of the driver, handed on as it is
DriverErr(msg) == Err("driver", <<>>, msg)
\* fmt.Errorf("host: %s error: %s", host, err.Error())
WrapErr(host, msg) == Err("wrapped", host, msg)

DialErrs == {"no reachable servers"}
PingErrs == {"EOF", "Closed explicitly"}
\* "not found" is mgo.ErrNotFound
FacadeErrs == {"not found", "EOF"}

\* the facade methods; in mongo.go these four recover a panic in their defer
Methods == {"GetRow", "GetResult", "GetCount", "Insert", "Update", "UpdateAll",
            "Upsert", "Remove", "RemoveAll", "FindAndModify", "FindAndRemove",
            "GetPipeRow", "GetPipeResult"}
RecoverMethods == {"FindAndModify", "FindAndRemove", "GetPipeRow", "GetPipeResult"}

\* an entry of conns: what a Conn call gave the caller ("handle": a *Client,
\* "nil": a nil *Client, "panic"), the outcome of its dial, the fields of the
\* Client (session, host, connErr), how often connErr has been written, and
\* for a Conn that panicked the address it was called with
ConnOut(out, addr, dial, session, host, connErr, writes) ==
    [out |-> out, addr |-> addr, dial |-> dial, session |-> session, host |-> host,
     connErr |-> connErr, writes |-> writes]

\* what a returned call reports
Returned(o, h, ret, derr, drv, copies, closes) ==
    [op |-> o, h |-> h, ret |-> ret, derr |-> derr, drv |-> drv,
     copies |-> copies, closes |-> closes]

NoCall == Returned("none", 0, NoErr, "none", 0, 0, 0)

(***************************************************************************)
(* The per-client variant (src/unnamed/part_000).                          *)
(***************************************************************************)
\* Conn, lines 37-53.  u is nil when url.Parse failed, and u.Host is read on
\* both branches (line 43 and line 50): a nil dereference, which panics.
ConnResult(urlAddr, dial) ==
    LET u == UrlParse(urlAddr)
    IN  IF ~u.ok THEN ConnOut("panic", urlAddr, dial, "nil", <<>>, NoErr, 0)
        ELSE IF dial # "ok"
        THEN ConnOut("handle", <<>>, dial, "nil", <<>>, WrapErr(u.host, dial), 1)
        ELSE ConnOut("handle", <<>>, dial, "open", u.host, NoErr, 0)

Conn(urlAddr, dial) ==
    /\ variant = "client"
    /\ Len(conns) < MaxHandles
    /\ conns' = Append(conns, ConnResult(urlAddr, dial))
    /\ UNCHANGED <<variant, gConnErr, pc, op, hd, cp, last, xvars, qvars>>

StickyErrIgnored(i) == NoErr

\* c.connErr as a facade method reads it in its first statement
StickyErr(i) == conns[i].connErr

\* session := c.session.Copy(); the deferred Close is registered
Acquire(p, i, kind) ==
    /\ pc' = [pc EXCEPT ![p] = "open"]
    /\ op' = [op EXCEPT ![p] = kind]
    /\ hd' = [hd EXCEPT ![p] = i]
    /\ cp' = [cp EXCEPT ![p] = "open"]

\* the defer of a method of part_000: session.Close(), directly or in a
\* function literal, with no recover in any of the thirteen
DeferKind(m) == "facade"

\* a facade method is called on handle i: the check of connErr, then the
\* session copy (lines 91-95 of GetRow, the same in all thirteen methods)
Facade(p, i, kind) ==
    /\ variant = "client"
    /\ pc[p] = "idle"
    /\ i \in DOMAIN conns
    /\ conns[i].out = "handle"
    /\ IF StickyErr(i) # NoErr
       THEN /\ last' = Returned(kind, i, StickyErr(i), "none", 0, 0, 0)
            /\ UNCHANGED <<pc, op, hd, cp>>
       ELSE IF conns[i].session # "open"
       THEN /\ last' = Returned(kind, i, Panic, "none", 0, 0, 0)
            /\ UNCHANGED <<pc, op, hd, cp>>
       ELSE /\ Acquire(p, i, kind)
            /\ UNCHANGED last
    /\ UNCHANGED <<variant, conns, gConnErr, xvars, qvars>>

DriverOutcomes == {"ok", "panic"} \cup FacadeErrs

\* the error a method of part_000 returns for the outcome of its driver call
FacadeErr(out) ==
    IF out = "ok" THEN NoErr
    ELSE IF out = "panic" THEN Panic
    ELSE DriverErr(out)

DeferredClosesUnlessPanic(out) == IF out = "panic" THEN 0 ELSE 1

\* defer session.Close(): runs once on every way out of the method
DeferredCloses(out) == 1

\* the caller's copy after the method has returned
Release(p, closes) ==
    /\ pc' = [pc EXCEPT ![p] = "idle"]
    /\ op' = [op EXCEPT ![p] = "none"]
    /\ hd' = [hd EXCEPT ![p] = 0]
    /\ cp' = [cp EXCEPT ![p] = IF closes >= 1 THEN "none" ELSE "open"]

\* the one driver call of the method, the deferred Close and the return
\* (lines 96-98 of GetRow)
FacadeReturn(p) ==
    /\ variant = "client"
    /\ pc[p] = "open"
    /\ op[p] = "facade"
    /\ \E out \in DriverOutcomes :
         /\ last' = Returned(op[p], hd[p], FacadeErr(out), out, 1, 1,
                             DeferredCloses(out))
         /\ Release(p, DeferredCloses(out))
    /\ UNCHANGED <<variant, conns, gConnErr, xvars, qvars>>

PingNoCheck(p, i) ==
    /\ variant = "client"
    /\ pc[p] = "idle"
    /\ i \in DOMAIN conns
    /\ conns[i].out = "handle"
    /\ conns[i].session = "open"
    /\ Acquire(p, i, "Ping")
    /\ UNCHANGED <<variant, conns, gConnErr, last, xvars, qvars>>

\* Ping is called on handle i: lines 77-81
Ping(p, i) ==
    /\ variant = "client"
    /\ pc[p] = "idle"
    /\ i \in DOMAIN conns
    /\ conns[i].out = "handle"
    /\ IF conns[i].connErr # NoErr
       THEN /\ last' = Returned("Ping", i, conns[i].connErr, "none", 0, 0, 0)
            /\ UNCHANGED <<pc, op, hd, cp>>
       ELSE IF conns[i].session # "open"
       THEN /\ last' = Returned("Ping", i, Panic, "none", 0, 0, 0)
            /\ UNCHANGED <<pc, op, hd, cp>>
       ELSE /\ Acquire(p, i, "Ping")
            /\ UNCHANGED last
    /\ UNCHANGED <<variant, conns, gConnErr, xvars, qvars>>

\* lines 82-85: session.Ping(), and on an error the write of c.connErr
PingLiveness(p) ==
    /\ variant = "client"
    /\ pc[p] = "open"
    /\ op[p] = "Ping"
    /\ \E out \in {"ok", "panic"} \cup PingErrs :
         IF out = "panic"
         THEN /\ last' = Returned("Ping", hd[p], Panic, out, 1, 1, DeferredCloses(out))
              /\ Release(p, DeferredCloses(out))
              /\ UNCHANGED conns
         ELSE /\ pc' = [pc EXCEPT ![p] = "pinged"]
              /\ conns' = IF out = "ok" THEN conns
                          ELSE [conns EXCEPT
                                  ![hd[p]].connErr = WrapErr(conns[hd[p]].host, out),
                                  ![hd[p]].writes = @ + 1]
              /\ UNCHANGED <<op, hd, cp, last>>
    /\ UNCHANGED <<variant, gConnErr, xvars, qvars>>

\* line 86, return c.connErr: the field is read again, then the deferred Close
PingReturn(p) ==
    /\ variant = "client"
    /\ pc[p] = "pinged"
    /\ last' = Returned("Ping", hd[p], conns[hd[p]].connErr, "none", 1, 1,
                        DeferredCloses("ok"))
    /\ Release(p, DeferredCloses("ok"))
    /\ UNCHANGED <<variant, conns, gConnErr, xvars, qvars>>

(***************************************************************************)
(* The single-global variant (src/mongo.go).                               *)
(***************************************************************************)
\* Conn, lines 32-51: a failed dial panics, the deferred recover stores the
\* error in the package's connErr and Conn returns a nil *Client; a
\* successful dial clears connErr.  The address only goes to mgo.Dial.
GConn(url, dial) ==
    /\ variant = "global"
    /\ Len(conns) < MaxConns
    /\ IF dial # "ok"
       THEN /\ gConnErr' = DriverErr(dial)
            /\ conns' = Append(conns, ConnOut("nil", <<>>, dial, "nil", <<>>, NoErr, 0))
       ELSE /\ gConnErr' = NoErr
            /\ conns' = Append(conns, ConnOut("handle", <<>>, dial, "open", <<>>, NoErr, 0))
    /\ UNCHANGED <<variant, pc, op, hd, cp, last, xvars, qvars>>

\* Ping, lines 54-56: returns the package's connErr
GPing ==
    /\ variant = "global"
    /\ last' = Returned("Ping", 0, gConnErr, "none", 0, 0, 0)
    /\ UNCHANGED <<variant, conns, gConnErr, pc, op, hd, cp, xvars, qvars>>

\* the defer of a method of mongo.go: session.Close(), after a recover in
\* the last four
GDeferKind(m) == IF m \in RecoverMethods THEN "facadeRecover" ELSE "facade"

\* a facade method is called on what the i-th Conn returned, a *Client or
\* nil: the check of the package's connErr, then c.session.Copy(), which
\* dereferences c (lines 75-79 of GetRow, the same in all thirteen methods)
GFacade(p, i, kind) ==
    /\ variant = "global"
    /\ pc[p] = "idle"
    /\ i \in DOMAIN conns
    /\ IF gConnErr # NoErr
       THEN /\ last' = Returned(kind, i, gConnErr, "none", 0, 0, 0)
            /\ UNCHANGED <<pc, op, hd, cp>>
       ELSE IF conns[i].out = "nil"
       THEN /\ last' = Returned(kind, i, Panic, "none", 0, 0, 0)
            /\ UNCHANGED <<pc, op, hd, cp>>
       ELSE /\ Acquire(p, i, kind)
            /\ UNCHANGED last
    /\ UNCHANGED <<variant, conns, gConnErr, xvars, qvars>>

\* the error a method of mongo.go returns for the outcome of its driver call:
\* lines 212-216, the deferred function of the last four methods recovers a
\* panic and the method returns its zero values, a nil error
GFacadeErr(kind, out) ==
    IF out = "ok" THEN NoErr
    ELSE IF out = "panic" THEN (IF kind = "facadeRecover" THEN NoErr ELSE Panic)
    ELSE DriverErr(out)

\* the one driver call of the method, the deferred Close and the return
GFacadeReturn(p) ==
    /\ variant = "global"
    /\ pc[p] = "open"
    /\ op[p] \in {"facade", "facadeRecover"}
    /\ \E out \in DriverOutcomes :
         /\ last' = Returned(op[p], hd[p], GFacadeErr(op[p], out), out, 1, 1,
                             DeferredCloses(out))
         /\ Release(p, DeferredCloses(out))
    /\ UNCHANGED <<variant, conns, gConnErr, xvars, qvars>>

(***************************************************************************)
(* Specifications.                                                         *)
(***************************************************************************)
HandlesIdle ==
    /\ conns = <<>>
    /\ gConnErr = NoErr
    /\ pc = [p \in Callers |-> "idle"]
    /\ op = [p \in Callers |-> "none"]
    /\ hd = [p \in Callers |-> 0]
    /\ cp = [p \in Callers |-> "none"]
    /\ last = NoCall

UtilsIdle ==
    /\ hx = [use |-> "none", variant |-> "client", s |-> <<>>, a |-> ZeroId, b |-> ZeroId]
    /\ hxOut = HexIdle

QueryIdle ==
    /\ qry = [query |-> [field |-> "age", min |-> 0],
              options |-> [Sort |-> Absent, Limit |-> Absent, Skip |-> Absent]]
    /\ qryOut = QryIdle

\* the handles of either variant, used by concurrent callers
Init ==
    /\ variant \in {"client", "global"}
    /\ HandlesIdle
    /\ UtilsIdle
    /\ QueryIdle

Next ==
    \/ \E a \in Addrs, d \in {"ok"} \cup DialErrs : Conn(a, d)
    \/ \E p \in Callers, i \in 1..MaxHandles, k \in {DeferKind(m) : m \in Methods} :
          Facade(p, i, k)
    \/ \E p \in Callers : FacadeReturn(p)
    \/ \E p \in Callers, i \in 1..MaxHandles : Ping(p, i)
    \/ \E p \in Callers : PingLiveness(p)
    \/ \E p \in Callers : PingReturn(p)
    \/ \E a \in Addrs, d \in {"ok"} \cup DialErrs : GConn(a, d)
    \/ GPing
    \/ \E p \in Callers, i \in 1..MaxConns, k \in {GDeferKind(m) : m \in Methods} :
          GFacade(p, i, k)
    \/ \E p \in Callers : GFacadeReturn(p)

Spec == Init /\ [][Next]_vars

\* the per-client variant with one call at a time: a sequence of calls
OthersIdle(p) == \A q \in Callers \ {p} : pc[q] = "idle"
AllIdle == \A q \in Callers : pc[q] = "idle"

SeqInit ==
    /\ variant = "client"
    /\ HandlesIdle
    /\ UtilsIdle
    /\ QueryIdle

SeqConn == AllIdle /\ \E a \in Addrs, d \in {"ok"} \cup DialErrs : Conn(a, d)
SeqFacade ==
    \E p \in Callers, i \in 1..MaxHandles, k \in {DeferKind(m) : m \in Methods} :
        OthersIdle(p) /\ Facade(p, i, k)
SeqFacadeReturn == \E p \in Callers : FacadeReturn(p)
SeqPing == \E p \in Callers, i \in 1..MaxHandles : OthersIdle(p) /\ Ping(p, i)
SeqPingLiveness == \E p \in Callers : PingLiveness(p)
SeqPingReturn == \E p \in Callers : PingReturn(p)

SeqNext ==
    \/ SeqConn
    \/ SeqFacade
    \/ SeqFacadeReturn
    \/ SeqPing
    \/ SeqPingLiveness
    \/ SeqPingReturn

SeqSpec == SeqInit /\ [][SeqNext]_vars

\* the identifier utilities on every input
HexInit ==
    /\ variant = "client"
    /\ HandlesIdle
    /\ QueryIdle
    /\ hx \in {[use |-> "string", variant |-> v, s |-> s, a |-> ZeroId, b |-> ZeroId] :
                  v \in {"client", "global"}, s \in HexInputs}
              \cup {[use |-> "ids", variant |-> v, s |-> <<>>, a |-> a, b |-> b] :
                  v \in {"client", "global"}, a \in IdInputs, b \in IdInputs}
    /\ hxOut = HexIdle

HexNext ==
    \/ DoIsObjectIdHex
    \/ DoObjectIDHex
    \/ DoHex
    \/ DoRoundTrip

HexSpec == HexInit /\ [][HexNext]_vars

\* GetResult on every options mapping
QueryInit ==
    /\ variant = "client"
    /\ HandlesIdle
    /\ UtilsIdle
    /\ qry \in {[query |-> q, options |-> [Sort |-> s, Limit |-> l, Skip |-> k]] :
                  q \in Queries, s \in SortValues,
                  l \in IntValues(MaxLimit), k \in IntValues(MaxSkip)}
    /\ qryOut = QryIdle

QueryNext == DoGetResult

QuerySpec == QueryInit /\ [][QueryNext]_vars

(***************************************************************************)
(* Properties.                                                             *)
(***************************************************************************)
FacadeKinds == {"facade", "facadeRecover"}

\* C1 (per-client variant): while the sticky error of a handle is set, no
\* facade call on that handle acquires a session copy, and a facade call
\* that returns without having been in flight returns exactly that error,
\* with no session copy and no driver call.
C1_ShortCircuit ==
    [][variant = "client" =>
         \A i \in DOMAIN conns :
            conns[i].connErr # NoErr =>
               /\ \A p \in Callers :
                     ~(pc[p] = "idle" /\ pc'[p] # "idle" /\ hd'[p] = i
                       /\ op'[p] \in FacadeKinds)
               /\ (pc' = pc /\ last' # last /\ last'.op \in FacadeKinds /\ last'.h = i)
                     => /\ last'.ret = conns[i].connErr
                        /\ last'.drv = 0
                        /\ last'.copies = 0
                        /\ cp' = cp]_vars

\* a facade call was short-circuited by an error that a failed Ping had set
C1_Witness ==
    /\ variant = "client"
    /\ last.op \in FacadeKinds
    /\ last.copies = 0
    /\ last.ret.kind = "wrapped"
    /\ last.ret.msg \in PingErrs
    /\ last.ret = conns[last.h].connErr

\* C2 (both variants): a caller that is not inside a call holds no open
\* session copy, a call that acquired a copy closed it exactly once whatever
\* the outcome of its driver call, and the long-lived session of a handle
\* stays open.
C2_CopiesClosed ==
    /\ \A p \in Callers : pc[p] = "idle" => cp[p] = "none"
    /\ last.copies = 1 => last.closes = 1
    /\ \A i \in DOMAIN conns :
          (conns[i].out = "handle" /\ conns[i].dial = "ok") => conns[i].session = "open"

\* a call whose driver call panicked has returned, its copy closed, while
\* another caller is still inside a call
C2_Witness ==
    /\ last.derr = "panic"
    /\ last.copies = 1
    /\ last.closes = 1
    /\ \E p \in Callers : pc[p] = "idle" /\ cp[p] = "none"
    /\ \E p \in Callers : pc[p] = "open" /\ cp[p] = "open"

\* C3 (per-client variant): every Conn call returns a handle, never a panic;
\* after a failed dial the sticky error is set, after a successful dial the
\* session is set and the sticky error is nil until a Ping writes it.
C3_ConnNeverPanics ==
    variant = "client" =>
       \A i \in DOMAIN conns :
          /\ conns[i].out = "handle"
          /\ conns[i].dial # "ok" => conns[i].connErr # NoErr
          /\ conns[i].dial = "ok" => conns[i].session = "open"
          /\ (conns[i].dial = "ok" /\ conns[i].writes = 0) => conns[i].connErr = NoErr

\* C4 (per-client variant, calls one after the other): once the sticky error
\* of a handle is set, no step changes the handle (its error, its session,
\* its host) and no call on the handle acquires a session copy, so none
\* reaches the driver.
C4_StickyErrFixed ==
    [][\A i \in DOMAIN conns :
          conns[i].connErr # NoErr =>
             /\ conns'[i] = conns[i]
             /\ \A p \in Callers :
                   ~(pc[p] = "idle" /\ pc'[p] # "idle" /\ hd'[p] = i)]_vars

\* a Ping was short-circuited on a handle whose earlier liveness check failed
C4_Witness ==
    /\ last.op = "Ping"
    /\ last.copies = 0
    /\ last.ret.kind = "wrapped"
    /\ last.ret.msg \in PingErrs
    /\ conns[last.h].dial = "ok"
    /\ conns[last.h].connErr = last.ret

\* C5 (per-client variant): the sticky error field of a handle is written at
\* most once, in every interleaving of the callers.
C5_WrittenAtMostOnce ==
    variant = "client" => \A i \in DOMAIN conns : conns[i].writes <= 1

\* the result the options mapping asks for: filter, then sort, then skip,
\* then limit, each of the three only for an entry of the expected type
Reference(query, o) ==
    LET f == Filter(Fixture, query)
        s == IF o.Sort.type = "Sort" THEN SortBy(f, o.Sort.fields) ELSE f
        k == IF o.Skip.type = "int" THEN Drop(s, o.Skip.n) ELSE s
    IN  IF o.Limit.type = "int" /\ o.Limit.n # 0 THEN Take(k, o.Limit.n) ELSE k

\* C6: GetResult applies Sort iff options["Sort"] has type Sort, Limit iff
\* options["Limit"] has type int, Skip iff options["Skip"] has type int,
\* surfaces no error for an absent or mistyped entry, and returns the
\* documents filtered, then sorted, then skipped, then limited.
C6_OptionsApplied ==
    qryOut.done =>
       /\ ("Sort" \in qryOut.applied) <=> (qry.options.Sort.type = "Sort")
       /\ ("Limit" \in qryOut.applied) <=> (qry.options.Limit.type = "int")
       /\ ("Skip" \in qryOut.applied) <=> (qry.options.Skip.type = "int")
       /\ qryOut.err = "nil"
       /\ qryOut.docs = Reference(qry.query, qry.options)

\* Sort ["-age"], Limit 2, Skip 1 on the five documents: the second and the
\* third highest ages, in descending order
C6_Witness ==
    /\ qryOut.done
    /\ qry.query.min = 0
    /\ qry.options.Sort = OptVal("Sort", 0, "", <<"-age">>)
    /\ qry.options.Limit = OptVal("int", 2, "", <<>>)
    /\ qry.options.Skip = OptVal("int", 1, "", <<>>)
    /\ Len(qryOut.docs) = 2
    /\ qryOut.docs[1].age = 30
    /\ qryOut.docs[2].age = 25

\* C7 (both variants): a facade call that went past the check made exactly
\* one driver call, returns a nil error only if that call completed without
\* error, and returns a driver error as the driver gave it.
C7_DriverFailureSurfaced ==
    (last.op \in FacadeKinds /\ last.copies = 1) =>
       /\ last.drv = 1
       /\ last.ret = NoErr => last.derr = "ok"
       /\ last.derr \in FacadeErrs => last.ret = DriverErr(last.derr)

HexChars == {"0", "1", "2", "3", "4", "5", "6", "7", "8", "9",
             "a", "b", "c", "d", "e", "f", "A", "B", "C", "D", "E", "F"}
LowerHexChars == {"0", "1", "2", "3", "4", "5", "6", "7", "8", "9",
                  "a", "b", "c", "d", "e", "f"}

\* C8: IsObjectIdHex(s) is true iff s has 24 characters, all hex digits, and
\* that holds iff ObjectIDHex(s) returns an identifier instead of panicking.
C8_ValidIffParses ==
    ({"IsObjectIdHex", "ObjectIDHex"} \subseteq hxOut.did) =>
       /\ hxOut.valid <=> (Len(hx.s) = 24 /\ \A k \in 1..Len(hx.s) : hx.s[k] \in HexChars)
       /\ hxOut.valid <=> hxOut.parsed.ok

\* a 24-character string with an upper-case digit was found valid and parsed
C8_Witness ==
    /\ {"IsObjectIdHex", "ObjectIDHex"} \subseteq hxOut.did
    /\ hxOut.valid
    /\ hxOut.parsed.ok
    /\ \E k \in 1..Len(hx.s) : hx.s[k] = "F"

\* C9 (both variants): ObjectIDHex(Hex(id)) = id, Hex(id) is 24 lower-case
\* hex digits, and two identifiers with the same Hex are the same.
C9_RoundTrip ==
    ({"Hex", "RoundTrip"} \subseteq hxOut.did) =>
       /\ hxOut.back.ok
       /\ hxOut.back.id = hx.a
       /\ Len(hxOut.hexA) = 24
       /\ \A k \in 1..Len(hxOut.hexA) : hxOut.hexA[k] \in LowerHexChars
       /\ hxOut.hexA = hxOut.hexB => hx.a = hx.b

\* the identifier ending in byte 0xab went through Hex and back, in the
\* single-global variant, beside a different identifier
C9_Witness ==
    /\ {"Hex", "RoundTrip"} \subseteq hxOut.did
    /\ hx.variant = "global"
    /\ hx.a[ObjectIdLen] = 171
    /\ hxOut.hexA[23] = "a"
    /\ hxOut.hexA[24] = "b"
    /\ hxOut.back.id = hx.a
    /\ hx.a # hx.b

\* C10 (single-global variant): a facade call on what the i-th Conn returned
\* reaches the driver iff that Conn's dial succeeded, and otherwise returns
\* the connection error without panicking.
C10_OwnConnDecides ==
    (variant = "global" /\ last.op \in FacadeKinds /\ last.h \in DOMAIN conns) =>
       /\ (last.drv = 1) <=> (conns[last.h].dial = "ok")
       /\ conns[last.h].dial # "ok" => (last.ret # NoErr /\ last.ret # Panic)

====
